---- MODULE Spec2Model ----
(***************************************************************************)
(* Polymarket arbiter: the arbitrage detection engine                      *)
(* (src/src/arbitrage_detector.py) and the scan cycle controller           *)
(* (src/src/main.py).                                                      *)
(*                                                                         *)
(* Prices, spreads and thresholds are decimals with two places in the      *)
(* source (0.03, 0.40, ...); here they are integers counting hundredths,   *)
(* so One = 1.00.  A profit estimate is the exact fraction num/den.        *)
(* A question is the sequence of its whitespace-separated words.           *)
(* Market ids are numerals, ordered as sorted() orders them.               *)
(***************************************************************************)
EXTENDS Integers, Sequences, FiniteSets, TLC

\* ------------------------------------------------------------------ bounds
MaxLen   == 2   \* longest market list handed to full_scan in ScanSpec
MaxScans == 2   \* scan cycles of the controller (stats["scans"])
MaxTime  == 2   \* last second of the wall clock
MaxPages == 3   \* full pages the Gamma API serves to one scan_all_markets
MaxShort == 2   \* longest page that is not full

\* ------------------------------------------------------- program constants
One                == 100  \* the literal 1.0
PROB_SUM_THRESHOLD == 3    \* 0.03
SPREAD_THRESHOLD   == 2    \* 0.02
DefaultMid         == 50   \* midpoints.get(token_id, 0.5)
SpreadBatch        == 100  \* all_token_ids[:100]
KeyWords           == 3    \* words[:3]
MIN_VOLUME         == 10000
MAX_MARKETS        == 500
BatchSize          == 100  \* batch_size = 100
DefaultPrice       == 50   \* the 0.5 of from_api_response

\* ----------------------------------------------------------- small helpers
Abs(x) == IF x < 0 THEN -x ELSE x

MaxOf(a, b) == IF a >= b THEN a ELSE b

MinOfSet(S) == CHOOSE x \in S : \A y \in S : x <= y

Take(s, n) == SubSeq(s, 1, IF Len(s) < n THEN Len(s) ELSE n)

Range(s) == {s[i] : i \in 1..Len(s)}

\* str.lower() on the words and outcome names the model uses
Lower(w) ==
    CASE w = "Will" -> "will"
      [] w = "BTC"  -> "btc"
      [] w = "By"   -> "by"
      [] w = "Yes"  -> "yes"
      [] w = "YES"  -> "yes"
      [] w = "No"   -> "no"
      [] w = "NO"   -> "no"
      [] OTHER      -> w

LowerWords(q) == [i \in 1..Len(q) |-> Lower(q[i])]

\* ------------------------------------------------------------------ Market
\* Market.prob_sum: sum(o.price for o in self.outcomes)
RECURSIVE SumPrices(_)
SumPrices(os) == IF os = <<>> THEN 0 ELSE Head(os).price + SumPrices(Tail(os))

prob_sum(m) == SumPrices(m.outcomes)

\* ------------------------------------------------------- Probability-Sum rule
\* faulty variant, for comparison: the threshold itself already fires
ProbSumFiresAtThreshold(m) ==
    /\ Len(m.outcomes) >= 2
    /\ Abs(prob_sum(m) - One) >= PROB_SUM_THRESHOLD

\* lines 74-80: the condition under which a market yields an opportunity
ProbSumFires(m) ==
    /\ Len(m.outcomes) >= 2
    /\ Abs(prob_sum(m) - One) > PROB_SUM_THRESHOLD

\* faulty variant, for comparison: the overweight case is not divided by prob_sum
ProbSumProfitUndivided(s) ==
    IF s > One THEN [num |-> s - One, den |-> One]
               ELSE [num |-> One - s, den |-> One]

\* faulty variant, for comparison: the deviation keeps its sign
ProbSumProfitSigned(s) == [num |-> s - One, den |-> IF s > One THEN s ELSE One]

\* lines 82-89: the theoretical profit
ProbSumProfit(s) ==
    IF s > One THEN [num |-> s - One, den |-> s]
               ELSE [num |-> One - s, den |-> One]

\* faulty variant, for comparison: the id leaves the timestamp out
ProbSumIdNoTime(m, t) == [kind |-> "prob", a |-> m.condition_id, b |-> "", t |-> 0]

\* f"prob_{market.condition_id}_{int(datetime.now().timestamp())}"
ProbSumId(m, t) == [kind |-> "prob", a |-> m.condition_id, b |-> "", t |-> t]

\* lines 91-102: the opportunity built for a market that fires
ProbSumOpp(m, t) ==
    [id              |-> ProbSumId(m, t),
     type            |-> "prob_sum",
     markets         |-> <<m>>,
     profit_estimate |-> ProbSumProfit(prob_sum(m)),
     detected_at     |-> t,
     details         |-> [prob_sum  |-> prob_sum(m),
                          deviation |-> Abs(prob_sum(m) - One),
                          action    |-> IF prob_sum(m) > One THEN "sell" ELSE "buy",
                          condition_id |-> m.condition_id]]

\* faulty variant, for comparison: the flagged markets are kept in a list, every trigger appends
FlagAppend(fl, m) == Append(fl, m)

\* self._flagged_markets[market.id] = market on an insertion-ordered dict:
\* an existing key keeps its position and takes the new value
FlagInsert(fl, m) ==
    IF \E i \in 1..Len(fl) : fl[i].id = m.id
    THEN [i \in 1..Len(fl) |-> IF fl[i].id = m.id THEN m ELSE fl[i]]
    ELSE Append(fl, m)

\* _detect_prob_sum_anomalies: the opportunities, in list order
RECURSIVE ProbSumOpps(_, _)
ProbSumOpps(ms, t) ==
    IF ms = <<>> THEN <<>>
    ELSE (IF ProbSumFires(Head(ms)) THEN <<ProbSumOpp(Head(ms), t)>> ELSE <<>>)
         \o ProbSumOpps(Tail(ms), t)

\* _detect_prob_sum_anomalies: its effect on the flagged-markets map
RECURSIVE ProbSumFlags(_, _)
ProbSumFlags(fl, ms) ==
    IF ms = <<>> THEN fl
    ELSE ProbSumFlags(IF ProbSumFires(Head(ms)) THEN FlagInsert(fl, Head(ms)) ELSE fl,
                      Tail(ms))

\* --------------------------------------------------------- Cross-Market rule
StopWords == {"will", "the", "a", "an", "be", "is", "are", "to", "of", "in", "on"}

Qualifiers == {"on", "by", "before", "after", "during"}

NotStopWord(w) == w \notin StopWords

\* lines 150-154: the lowercase words of the question that are no stop words
SignificantWords(q) == SelectSeq(LowerWords(q), NotStopWord)

\* line 158: " ".join(words[:3])
GroupKey(m) == Take(SignificantWords(m.question), KeyWords)

\* line 156: if words
HasKey(m) == SignificantWords(m.question) # <<>>

\* the keys of the defaultdict, in the order of their first insertion
RECURSIVE KeysInOrder(_, _)
KeysInOrder(ms, acc) ==
    IF ms = <<>> THEN acc
    ELSE KeysInOrder(Tail(ms),
                     IF HasKey(Head(ms)) /\ GroupKey(Head(ms)) \notin Range(acc)
                     THEN Append(acc, GroupKey(Head(ms)))
                     ELSE acc)

RECURSIVE GroupOf(_, _)
GroupOf(ms, k) ==
    IF ms = <<>> THEN <<>>
    ELSE (IF HasKey(Head(ms)) /\ GroupKey(Head(ms)) = k THEN <<Head(ms)>> ELSE <<>>)
         \o GroupOf(Tail(ms), k)

RECURSIVE KeepGroups(_)
KeepGroups(gs) ==
    IF gs = <<>> THEN <<>>
    ELSE (IF Len(Head(gs)) >= 2 THEN <<Head(gs)>> ELSE <<>>) \o KeepGroups(Tail(gs))

\* _group_similar_markets: the groups of two or more markets, in dict order
group_similar_markets(ms) ==
    LET ks == KeysInOrder(ms, <<>>)
    IN  KeepGroups([i \in 1..Len(ks) |-> GroupOf(ms, ks[i])])

\* re.sub(r'\s+(on|by|before|after|during)\s+.*$', '', q).strip() on the
\* lowercase question: the words before the first qualifier that has a word
\* before it and a word after it
CoreEvent(q) ==
    LET w == LowerWords(q)
        I == {i \in 2..(Len(w) - 1) : w[i] \in Qualifiers}
    IN  IF I = {} THEN w ELSE SubSeq(w, 1, MinOfSet(I) - 1)

\* {o.name.lower() for o in m.outcomes}
OutcomeNames(m) == {Lower(m.outcomes[i].name) : i \in 1..Len(m.outcomes)}

\* line 200: {"yes", "no"} <= outcomes
HasYesNo(m) == {"yes", "no"} \subseteq OutcomeNames(m)

\* next(o.price for o in m.outcomes if o.name.lower() == n)
PriceOf(m, n) ==
    m.outcomes[MinOfSet({i \in 1..Len(m.outcomes) : Lower(m.outcomes[i].name) = n})].price

Combo1(m1, m2) == PriceOf(m1, "yes") + PriceOf(m2, "no")

Combo2(m1, m2) == PriceOf(m1, "no") + PriceOf(m2, "yes")

\* lines 215-216
ComboProfit(combo) == IF combo < One THEN One - combo ELSE 0

\* line 218
BestProfit(m1, m2) == MaxOf(ComboProfit(Combo1(m1, m2)), ComboProfit(Combo2(m1, m2)))

\* faulty variant, for comparison: the guard compares market ids
SameMarketId(m1, m2) == m1.id = m2.id

\* line 178: the pair is one contract listed twice
SameCondition(m1, m2) == m1.condition_id = m2.condition_id

\* lines 183-193
SameCoreEvent(m1, m2) == CoreEvent(m1.question) = CoreEvent(m2.question)

\* lines 196-201
BothYesNo(m1, m2) == HasYesNo(m1) /\ HasYesNo(m2)

CrossId(m1, m2, t) ==
    [kind |-> "cross", a |-> m1.condition_id, b |-> m2.condition_id, t |-> t]

\* lines 220-248
\* faulty variant, for comparison: the opportunity carries its first market only
CrossOppOneLeg(m1, m2, t) ==
    [id              |-> CrossId(m1, m2, t),
     type            |-> "cross_market",
     markets         |-> <<m1>>,
     profit_estimate |-> [num |-> BestProfit(m1, m2), den |-> One],
     detected_at     |-> t,
     details         |-> [leg    |-> "yes_m1_no_m2",
                          cost   |-> Combo1(m1, m2),
                          payout |-> One,
                          profit |-> BestProfit(m1, m2)]]

CrossOpp(m1, m2, t) ==
    LET p1 == ComboProfit(Combo1(m1, m2))
        p2 == ComboProfit(Combo2(m1, m2))
    IN  [id              |-> CrossId(m1, m2, t),
         type            |-> "cross_market",
         markets         |-> <<m1, m2>>,
         profit_estimate |-> [num |-> BestProfit(m1, m2), den |-> One],
         detected_at     |-> t,
         details         |-> [leg    |-> IF p1 > p2 THEN "yes_m1_no_m2" ELSE "no_m1_yes_m2",
                              cost   |-> IF p1 > p2 THEN Combo1(m1, m2) ELSE Combo2(m1, m2),
                              payout |-> One,
                              profit |-> BestProfit(m1, m2)]]

\* faulty variant, for comparison: a profit equal to the threshold is emitted
EmitsAtThreshold(m1, m2) == BestProfit(m1, m2) >= SPREAD_THRESHOLD

\* line 220
Emits(m1, m2) == BestProfit(m1, m2) > SPREAD_THRESHOLD

\* _check_cross_market: no opportunity (None) or one
check_cross_market(m1, m2, t) ==
    IF SameCondition(m1, m2) THEN <<>>
    ELSE IF ~SameCoreEvent(m1, m2) THEN <<>>
    ELSE IF ~BothYesNo(m1, m2) THEN <<>>
    ELSE IF Emits(m1, m2) THEN <<CrossOpp(m1, m2, t)>>
    ELSE <<>>

\* lines 131-136: every pair i < j of one group, in loop order
RECURSIVE CrossOfGroup(_, _, _, _)
CrossOfGroup(g, i, j, t) ==
    IF i > Len(g) THEN <<>>
    ELSE IF j > Len(g) THEN CrossOfGroup(g, i + 1, i + 2, t)
    ELSE check_cross_market(g[i], g[j], t) \o CrossOfGroup(g, i, j + 1, t)

RECURSIVE CrossOfGroups(_, _)
CrossOfGroups(gs, t) ==
    IF gs = <<>> THEN <<>>
    ELSE CrossOfGroup(Head(gs), 1, 2, t) \o CrossOfGroups(Tail(gs), t)

\* _detect_cross_market_opportunities
detect_cross_market_opportunities(ms, t) == CrossOfGroups(group_similar_markets(ms), t)

\* --------------------------------------------------------------- Spread rule
\* get_token_ids_for_markets: det is what get_market_details yields per
\* market id, <<>> standing for None, an exception or no clobTokenIds
get_token_ids_for_markets(ms, det) ==
    [id \in {m.id : m \in {x \in Range(ms) : det[x.id] # <<>>}} |-> det[id]]

\* token_map.get(market.id, [])
TokensFor(token_map, m) ==
    IF m.id \in DOMAIN token_map THEN token_map[m.id] ELSE <<>>

\* lines 271-277: all_token_ids
RECURSIVE AllTokenIds(_, _)
AllTokenIds(fl, token_map) ==
    IF fl = <<>> THEN <<>>
    ELSE TokensFor(token_map, Head(fl)) \o AllTokenIds(Tail(fl), token_map)

\* lines 272-277: market_token_map, as the sequence of (token, market) writes;
\* the last write of a token is the one the dict keeps
RECURSIVE TokenWrites(_, _)
TokenWrites(fl, token_map) ==
    IF fl = <<>> THEN <<>>
    ELSE [i \in 1..Len(TokensFor(token_map, Head(fl))) |->
             [token_id |-> TokensFor(token_map, Head(fl))[i], market |-> Head(fl)]]
         \o TokenWrites(Tail(fl), token_map)

\* market_token_map.get(token_id): <<>> for None, <<market>> otherwise
MarketOfToken(writes, tok) ==
    LET I == {i \in 1..Len(writes) : writes[i].token_id = tok}
    IN  IF I = {} THEN <<>>
        ELSE <<writes[CHOOSE i \in I : \A j \in I : j <= i].market>>

\* line 283: the token ids handed to get_spreads
SpreadRequest(fl, token_map) == Take(AllTokenIds(fl, token_map), SpreadBatch)

SpreadId(tok, t) == [kind |-> "spread", a |-> tok, b |-> "", t |-> t]

\* lines 290-304: mids is the get_midpoints answer
SpreadOpp(m, tok, spread, mids, t) ==
    [id              |-> SpreadId(tok, t),
     type            |-> "spread",
     markets         |-> <<m>>,
     profit_estimate |-> [num |-> spread, den |-> One],
     detected_at     |-> t,
     details         |-> [spread    |-> spread,
                          mid_price |-> IF tok \in DOMAIN mids THEN mids[tok] ELSE DefaultMid,
                          token_id  |-> tok]]

\* lines 285-305: one pass over spreads.items()
SpreadLoop(spr, writes, mids, t) ==
    LET Hit(e) == /\ e.spread > SPREAD_THRESHOLD
                  /\ MarketOfToken(writes, e.token_id) # <<>>
        hits   == SelectSeq(spr, Hit)
    IN  [k \in 1..Len(hits) |->
           SpreadOpp(MarketOfToken(writes, hits[k].token_id)[1],
                     hits[k].token_id, hits[k].spread, mids, t)]

\* faulty variant, for comparison: the Spread rule looks at the whole market list
MarketsToCheckAll(fl, ms) == ms

\* line 263: the markets the Spread rule looks at
MarketsToCheck(fl, ms) == fl

\* _detect_spread_opportunities; spr is the get_spreads answer to SpreadRequest
detect_spread_opportunities(fl, ms, det, spr, mids, t) ==
    LET chk       == MarketsToCheck(fl, ms)
        token_map == get_token_ids_for_markets(chk, det)
    IN  IF chk = <<>> THEN <<>>
        ELSE IF AllTokenIds(chk, token_map) = <<>> THEN <<>>
        ELSE SpreadLoop(spr, TokenWrites(chk, token_map), mids, t)

\* ---------------------------------------------------------------- Aggregator
RECURSIVE InsertSorted(_, _)
InsertSorted(x, s) ==
    IF s = <<>> THEN <<x>>
    ELSE IF x <= Head(s) THEN <<x>> \o s
    ELSE <<Head(s)>> \o InsertSorted(x, Tail(s))

RECURSIVE Sorted(_)
Sorted(s) == IF s = <<>> THEN <<>> ELSE InsertSorted(Head(s), Sorted(Tail(s)))

\* faulty variant, for comparison: the key tells the opportunities of one market apart
DedupKeyWithId(o) ==
    [type |-> o.type, ids |-> Sorted([i \in 1..Len(o.markets) |-> o.markets[i].id]),
     id |-> o.id]

\* (opp.type.value, tuple(sorted(m.id for m in opp.markets)))
DedupKey(o) ==
    [type |-> o.type, ids |-> Sorted([i \in 1..Len(o.markets) |-> o.markets[i].id])]

RECURSIVE DedupLoop(_, _)
DedupLoop(os, seen_keys) ==
    IF os = <<>> THEN <<>>
    ELSE IF DedupKey(Head(os)) \in seen_keys THEN DedupLoop(Tail(os), seen_keys)
    ELSE <<Head(os)>> \o DedupLoop(Tail(os), seen_keys \cup {DedupKey(Head(os))})

\* faulty variant, for comparison: the aggregator only concatenates
KeepAll(os) == os

\* _deduplicate_opportunities
deduplicate_opportunities(os) == DedupLoop(os, {})

\* ------------------------------------------------ the Market Data Source
Outcome(n, p) == [name |-> n, price |-> p]

Market(i, c, q, os) == [id |-> i, condition_id |-> c, question |-> q, outcomes |-> os]

QFri   == <<"Will", "BTC", "hit", "60k", "by", "friday">>

QSun   == <<"will", "btc", "hit", "60k", "By", "sunday">>

QAgain == <<"Will", "BTC", "hit", "60k", "again">>

QEth   == <<"the", "eth", "flips">>

MFair   == Market(1, "c1", QFri,   <<Outcome("yes", 40), Outcome("no", 60)>>)

MOver   == Market(2, "c2", QSun,   <<Outcome("Yes", 70), Outcome("No", 40)>>)

MUnder  == Market(3, "c1", QSun,   <<Outcome("YES", 45), Outcome("NO", 45)>>)

MUnderB == Market(1, "c1", QFri,   <<Outcome("yes", 40), Outcome("no", 50)>>)

MEdge   == Market(4, "c3", QEth,   <<Outcome("yes", 52), Outcome("no", 51)>>)

MThree  == Market(4, "c4", QSun,   <<Outcome("yes", 30), Outcome("no", 30), Outcome("maybe", 40)>>)

MSingle == Market(2, "c2", QFri,   <<Outcome("yes", 50)>>)

MAgain  == Market(3, "c5", QAgain, <<Outcome("yes", 30), Outcome("no", 60)>>)

MBound  == Market(2, "c6", QFri,   <<Outcome("yes", 42), Outcome("no", 58)>>)

MMany   == Market(5, "c7", QEth,   <<Outcome("yes", 30), Outcome("no", 60)>>)

MTie    == Market(4, "c8", QSun,   <<Outcome("yes", 40), Outcome("no", 40)>>)

\* the market snapshots a fetch can yield
Universe == {MFair, MOver, MUnder, MUnderB, MEdge, MThree, MSingle, MAgain, MBound}

MarketIds == {m.id : m \in Universe \cup {MMany, MTie}}

SeqsUpTo(S, n) == UNION {[1..k -> S] : k \in 0..n}

\* the market lists full_scan is run on in ScanSpec
MarketLists == (SeqsUpTo(Universe, MaxLen) \ {<<>>}) \cup {<<MMany>>, <<MUnder, MTie>>}

\* the lists scan_all_markets yields in Spec; <<>> is a cycle whose fetches all fail
FeedLists == {<<>>, <<MFair, MOver>>, <<MUnder, MUnderB>>}

\* the clobTokenIds of market 5: one more than a spread batch holds
ManyTokens ==
    <<"t4", "t5", "t6", "t7", "t8", "t9", "t10", "t11", "t12", "t13",
      "t14", "t15", "t16", "t17", "t18", "t19", "t20", "t21", "t22", "t23",
      "t24", "t25", "t26", "t27", "t28", "t29", "t30", "t31", "t32", "t33",
      "t34", "t35", "t36", "t37", "t38", "t39", "t40", "t41", "t42", "t43",
      "t44", "t45", "t46", "t47", "t48", "t49", "t50", "t51", "t52", "t53",
      "t54", "t55", "t56", "t57", "t58", "t59", "t60", "t61", "t62", "t63",
      "t64", "t65", "t66", "t67", "t68", "t69", "t70", "t71", "t72", "t73",
      "t74", "t75", "t76", "t77", "t78", "t79", "t80", "t81", "t82", "t83",
      "t84", "t85", "t86", "t87", "t88", "t89", "t90", "t91", "t92", "t93",
      "t94", "t95", "t96", "t97", "t98", "t99", "t100", "t101", "t102", "t103",
      "t104">>

\* the clobTokenIds of each market id
TokenWorld ==
    (1 :> <<"t1", "t2">>) @@ (2 :> <<"t3">>) @@ (3 :> <<"t1">>) @@ (4 :> <<>>)
    @@ (5 :> ManyTokens)

Tokens == {"t1", "t2", "t3"} \cup Range(ManyTokens)

\* the spreads and midpoints the CLOB API holds, in hundredths; of the tokens
\* of market 5 the first and the last have a wide spread
SpreadWorld ==
    [wide  |-> [k \in Tokens |->
                  CASE k = "t1" -> 5
                    [] k = "t2" -> 4
                    [] k = "t3" -> 3
                    [] k = ManyTokens[1] -> 6
                    [] k = ManyTokens[Len(ManyTokens)] -> 7
                    [] OTHER -> 1],
     mixed |-> [k \in Tokens |->
                  CASE k = "t1" -> 2
                    [] k = "t2" -> 6
                    [] OTHER -> 1]]

MidWorld ==
    [k \in Tokens |->
       CASE k = "t1" -> 40
         [] k = "t2" -> 55
         [] k = "t3" -> 70
         [] OTHER -> 45]

\* what the external lookups of one scan answer: the market ids whose details
\* lookup fails, whether the spread fetch fails, whether the midpoint fetch fails
World(d, s, m) == [down |-> d, spr |-> s, mid_ok |-> m]

\* every lookup of a scan fails
NoAnswers == World(MarketIds, "fail", FALSE)

Worlds == {World({}, "wide", TRUE), World({}, "wide", FALSE), World({}, "mixed", TRUE),
           World({}, "fail", FALSE), World({1}, "wide", FALSE), NoAnswers}

\* the answers the controller's scans get in Spec
FeedWorlds == {World({}, "wide", TRUE), NoAnswers}

\* get_market_details per market id: <<>> when the lookup yields nothing
DetailsAnswer(w) == [i \in MarketIds |-> IF i \in w.down THEN <<>> ELSE TokenWorld[i]]

\* the keys of a dict built from the items of s, in insertion order
Distinct(s) ==
    LET First(i) == \A j \in 1..(i - 1) : s[j] # s[i]
        keep     == SelectSeq([i \in 1..Len(s) |-> i], First)
    IN  [k \in 1..Len(keep) |-> s[keep[k]]]

\* faulty variant, for comparison: a failed request is answered with earlier spreads
get_spreads_stale(req, w) ==
    IF req = <<>> THEN <<>>
    ELSE LET ts   == Distinct(req)
             book == SpreadWorld[IF w.spr = "fail" THEN "wide" ELSE w.spr]
         IN  [i \in 1..Len(ts) |-> [token_id |-> ts[i], spread |-> book[ts[i]]]]

\* get_spreads: {} for no token ids or a failed request, else one entry per token
get_spreads(req, w) ==
    IF req = <<>> \/ w.spr = "fail" THEN <<>>
    ELSE LET ts == Distinct(req)
         IN  [i \in 1..Len(ts) |-> [token_id |-> ts[i], spread |-> SpreadWorld[w.spr][ts[i]]]]

\* get_midpoints: {} on a failed request
get_midpoints(w) ==
    IF w.mid_ok THEN MidWorld ELSE [x \in {} |-> 0]

\* ------------------------------------------- the Gamma API and the fetch
\* a raw outcome price: text float() accepts (its value in hundredths) or rejects
Num(v) == [num |-> TRUE, v |-> v]

Junk == [num |-> FALSE, v |-> 0]

\* one record of a /markets response, without its id; no outcomePrices is <<>>
RawKind(vol, closed, prices) ==
    [volume |-> vol, closed |-> closed, outcomes |-> <<"Yes", "No">>, outcomePrices |-> prices]

RGood     == RawKind(30000, FALSE, <<Num(40), Num(70)>>)

RMid      == RawKind(20000, FALSE, <<Num(50), Num(50)>>)

RLow      == RawKind(5000, FALSE, <<Num(50), Num(50)>>)

RClosed   == RawKind(30000, TRUE, <<Num(50), Num(50)>>)

RJunk     == RawKind(30000, FALSE, <<Junk, Num(50)>>)

RNoPrices == RawKind(30000, FALSE, <<>>)

ROver     == RawKind(30000, FALSE, <<Num(150), Num(40)>>)

RNeg      == RawKind(30000, FALSE, <<Num(-20), Num(60)>>)

RawKinds == {RGood, RMid, RLow, RClosed, RJunk, RNoPrices, ROver, RNeg}

\* the record of kind k with market id i
Raw(i, k) ==
    [id |-> i, volume |-> k.volume, closed |-> k.closed, outcomes |-> k.outcomes,
     outcomePrices |-> k.outcomePrices]

\* the pages the API can answer at an offset: short ones, and a full one
ShortPages(o) ==
    {[i \in 1..Len(ks) |-> Raw(o + i, ks[i])] : ks \in SeqsUpTo(RawKinds, MaxShort) \ {<<>>}}

FullPage(o) ==
    [i \in 1..BatchSize |->
       Raw(o + i, RawKind(MIN_VOLUME * (1 + (i % 3)), FALSE, <<Num(40), Num(60)>>))]

\* the volumes the records of the API carry
Volumes == {k.volume : k \in RawKinds} \cup {MIN_VOLUME * n : n \in 1..3}

FailedRequest == [ok |-> FALSE, data |-> <<>>]

Response(page) == [ok |-> TRUE, data |-> page]

Responses(o) ==
    {FailedRequest}
    \cup {Response(pg) : pg \in ShortPages(o)}
    \cup (IF o < MaxPages * BatchSize THEN {Response(FullPage(o))} ELSE {})

\* the values config.MAX_MARKETS is run with
MaxMarketsChoices == {1, 150, MAX_MARKETS}

\* float(outcome_prices[i]) raises for some outcome
ParseRaises(data) ==
    \E i \in 1..Len(data.outcomes) :
        i <= Len(data.outcomePrices) /\ ~data.outcomePrices[i].num

\* Market.from_api_response, for a record it does not raise on
from_api_response(data) ==
    [id           |-> data.id,
     condition_id |-> "",
     question     |-> <<>>,
     outcomes     |-> [i \in 1..Len(data.outcomes) |->
                         Outcome(data.outcomes[i],
                                 IF i <= Len(data.outcomePrices)
                                 THEN data.outcomePrices[i].v ELSE DefaultPrice)],
     volume       |-> data.volume,
     status       |-> IF data.closed THEN "closed" ELSE "active"]

\* lines 76-80 of get_markets
ActiveWithVolume(m) == m.status = "active" /\ m.volume >= MIN_VOLUME

\* get_markets: [] for a failed request and for a page with a record that raises
get_markets(resp) ==
    IF ~resp.ok THEN <<>>
    ELSE IF \E i \in 1..Len(resp.data) : ParseRaises(resp.data[i]) THEN <<>>
    ELSE SelectSeq([i \in 1..Len(resp.data) |-> from_api_response(resp.data[i])],
                   ActiveWithVolume)

\* faulty variant, for comparison: the list is cut as it was fetched
Unsorted(ms, V) == ms

\* markets.sort(key=lambda m: m.volume, reverse=True): stable, V the volumes left
RECURSIVE SortDesc(_, _)
SortDesc(ms, V) ==
    IF V = {} THEN <<>>
    ELSE LET v       == CHOOSE x \in V : \A y \in V : y <= x
             Has(m)  == m.volume = v
         IN  SelectSeq(ms, Has) \o SortDesc(ms, V \ {v})

\* lines 213-216
SortAndCap(ms, max) == Take(SortDesc(ms, Volumes), max)

\* -------------------------------------------------------------------- state
VARIABLES
    pc,            \* where the controller is: idle, loop, fetching, detecting,
                   \* filtering, notifying, sleeping, backoff, stopped
    running,       \* ArbitrageMonitor._running
    now,           \* int(datetime.now().timestamp())
    markets,       \* the market list of the current cycle
    calls,         \* full_scan calls made on the current market list
    flagged,       \* ArbitrageDetector._flagged_markets, in insertion order
    scan,          \* the last full_scan: rule outputs, result, lookups and answers;
                   \* repeat: it ran in the second and with the answers of the call before
    seen,          \* ArbitrageMonitor._seen_opportunity_ids
    new_opps,      \* the opportunities handed to notify_opportunities this cycle
    handed,        \* what was handed to the sink in earlier cycles: id, key, second
    stats,         \* ArbitrageMonitor.stats
    fetch          \* scan_all_markets: its locals, the last response, _markets_cache

vars == <<pc, running, now, markets, calls, flagged, scan, seen, new_opps, handed, stats,
          fetch>>

NoTokenMap == [x \in {} |-> <<>>]

NoScan ==
    [prob       |-> <<>>,
     cross      |-> <<>>,
     spread     |-> <<>>,
     result     |-> <<>>,
     checked    |-> <<>>,
     lookups    |-> {},
     token_map  |-> NoTokenMap,
     spread_req |-> <<>>,
     spreads    |-> <<>>,
     world      |-> NoAnswers,
     repeat     |-> FALSE,
     at         |-> 0]

\* PolymarketClient before scan_all_markets is called
NoFetch ==
    [step    |-> "idle",
     max     |-> MAX_MARKETS,
     offset  |-> 0,
     requests |-> 0,
     resp    |-> FailedRequest,
     markets |-> <<>>,
     cache   |-> <<>>]

\* ArbitrageMonitor.__init__ and ArbitrageDetector.__init__
InitState ==
    /\ running = FALSE
    /\ now = 0
    /\ calls = 0
    /\ flagged = <<>>
    /\ scan = NoScan
    /\ seen = {}
    /\ new_opps = <<>>
    /\ handed = {}
    /\ stats = [scans |-> 0, opportunities |-> 0, notifications |-> 0, errors |-> 0]

Init ==
    /\ pc = "idle"
    /\ markets = <<>>
    /\ fetch = NoFetch
    /\ InitState

\* a detector on which full_scan is about to be called with a market list
ScanInit ==
    /\ pc = "detecting"
    /\ markets \in MarketLists
    /\ fetch = NoFetch
    /\ InitState

\* ------------------------------------------------------------------ full_scan
\* the clock readings a scan started at second t0 can make
ClockAfter(t0) == {t \in {t0, t0 + 1} : t <= MaxTime}

\* faulty variant, for comparison: the Spread rule runs before the Probability-Sum rule
FlagsBeforeProbSum(before, after) == before

\* lines 47-53: the Spread rule runs after the Probability-Sum rule and reads
\* the flagged-markets map that rule left
FlagsAtSpread(before, after) == after

\* full_scan: the three rules in order, then the aggregator
full_scan(ms, fl, w, t) ==
    LET fl1       == ProbSumFlags(fl, ms)
        chk       == MarketsToCheck(FlagsAtSpread(fl, fl1), ms)
        token_map == get_token_ids_for_markets(chk, DetailsAnswer(w))
        req       == IF chk = <<>> THEN <<>> ELSE SpreadRequest(chk, token_map)
        spr       == get_spreads(req, w)
        prob      == ProbSumOpps(ms, t)
        cross     == detect_cross_market_opportunities(ms, t)
        spread    == detect_spread_opportunities(FlagsAtSpread(fl, fl1), ms, DetailsAnswer(w), spr,
                                                 get_midpoints(w), t)
    IN  [flagged    |-> fl1,
         prob       |-> prob,
         cross      |-> cross,
         spread     |-> spread,
         result     |-> deduplicate_opportunities(prob \o cross \o spread),
         checked    |-> chk,
         lookups    |-> {m.id : m \in Range(chk)},
         token_map  |-> IF chk = <<>> THEN NoTokenMap ELSE token_map,
         spread_req |-> req,
         spreads    |-> spr,
         world      |-> w,
         at         |-> t]

\* a scan that checks no market makes no lookup, so nothing answers it
AnswersTo(W, ms, fl) ==
    IF MarketsToCheck(ProbSumFlags(fl, ms), ms) = <<>> THEN {NoAnswers}
    ELSE W

\* what full_scan leaves behind, apart from the flagged-markets map
ScanRecord(r, again) == [f \in DOMAIN NoScan |-> IF f = "repeat" THEN again ELSE r[f]]

\* await self.detector.full_scan(markets), the external lookups answering as
\* one of the worlds W
DetectIn(W) ==
    /\ pc = "detecting"
    /\ \E t \in ClockAfter(now), w \in AnswersTo(W, markets, flagged) :
         LET r == full_scan(markets, flagged, w, t)
         IN  /\ now' = t
             /\ scan' = ScanRecord(r, calls >= 1 /\ w = scan.world /\ t = scan.at)
             /\ flagged' = r.flagged
    /\ calls' = calls + 1
    /\ pc' = "filtering"
    /\ UNCHANGED <<fetch, running, markets, seen, new_opps, handed, stats>>

\* main.py line 118
Detect == DetectIn(FeedWorlds)

\* scan.py line 50, scan_handler.py line 25
ScanDetect == DetectIn(Worlds)

\* full_scan called once more on the same detector with the same market list
Rescan ==
    /\ pc = "filtering"
    /\ calls = 1
    /\ pc' = "detecting"
    /\ UNCHANGED <<fetch, running, now, markets, calls, flagged, scan, seen, new_opps,
                   handed, stats>>

\* ------------------------------------------------------ Scan Cycle Controller
OppIds(os) == [i \in 1..Len(os) |-> os[i].id]

\* faulty variant, for comparison: the novelty filter lets everything through
NovelAll(os, seen_ids) == os

\* line 121: [o for o in opportunities if o.id not in self._seen_opportunity_ids]
RECURSIVE Novel(_, _)
Novel(os, seen_ids) ==
    IF os = <<>> THEN <<>>
    ELSE (IF Head(os).id \notin seen_ids THEN <<Head(os)>> ELSE <<>>)
         \o Novel(Tail(os), seen_ids)

\* faulty variant, for comparison: the ids are not recorded before the sink is called
SeenForgets(seen_ids, new) == seen_ids

\* lines 124-125: the seen-set after the ids of new_opps were added
SeenAfter(seen_ids, new) == seen_ids \cup Range(OppIds(new))

\* the record kept of each opportunity the sink was called with
HandedOf(os) ==
    {[id |-> os[i].id, key |-> DedupKey(os[i]), at |-> os[i].detected_at] : i \in 1..Len(os)}

\* ArbitrageMonitor.start: lines 77-86
Start ==
    /\ pc = "idle"
    /\ running' = TRUE
    /\ pc' = "loop"
    /\ UNCHANGED <<fetch, now, markets, calls, flagged, scan, seen, new_opps, handed, stats>>

\* faulty variant, for comparison: the loop head does not look at _running
LoopHeadDeaf ==
    /\ pc = "loop"
    /\ stats.scans < MaxScans
    /\ stats' = [stats EXCEPT !.scans = @ + 1]
    /\ pc' = "fetching"
    /\ UNCHANGED <<fetch, running, now, markets, calls, flagged, scan, seen, new_opps, handed>>

\* _monitor_loop line 90 and _full_scan_cycle lines 107-108
LoopHead ==
    /\ pc = "loop"
    /\ \/ /\ running
          /\ stats.scans < MaxScans
          /\ stats' = [stats EXCEPT !.scans = @ + 1]
          /\ pc' = "fetching"
       \/ /\ ~running
          /\ stats' = stats
          /\ pc' = "stopped"
    /\ UNCHANGED <<fetch, running, now, markets, calls, flagged, scan, seen, new_opps, handed>>

\* _full_scan_cycle lines 111-115: the fetch stage; <<>> is "no markets fetched"
Fetch ==
    /\ pc = "fetching"
    /\ \E ms \in FeedLists :
         /\ markets' = ms
         /\ pc' = IF ms = <<>> THEN "sleeping" ELSE "detecting"
    /\ calls' = 0
    /\ UNCHANGED <<fetch, running, now, flagged, scan, seen, new_opps, handed, stats>>

\* _full_scan_cycle lines 120-130: the novelty filter, up to the call of the sink
Filter ==
    /\ pc = "filtering"
    /\ LET new == Novel(scan.result, seen)
       IN  /\ new_opps' = new
           /\ seen' = IF new # <<>> THEN SeenAfter(seen, new) ELSE seen
           /\ stats' = [stats EXCEPT !.opportunities = @ + Len(new)]
           /\ pc' = IF new # <<>> THEN "notifying" ELSE "sleeping"
    /\ markets' = <<>>
    /\ calls' = 0
    /\ UNCHANGED <<fetch, running, now, flagged, scan, handed>>

\* _full_scan_cycle lines 130-139: the sink reports how many it sent
Notified ==
    /\ pc = "notifying"
    /\ \E sent \in 0..Len(new_opps) :
         stats' = [stats EXCEPT !.notifications = @ + sent]
    /\ handed' = handed \cup HandedOf(new_opps)
    /\ new_opps' = <<>>
    /\ pc' = "sleeping"
    /\ UNCHANGED <<fetch, running, now, markets, calls, flagged, scan, seen>>

\* faulty variant, for comparison: the exception of a stage ends the loop
RaisedUncaught ==
    /\ pc \in {"fetching", "detecting", "notifying"}
    /\ pc' = "stopped"
    /\ markets' = <<>>
    /\ calls' = 0
    /\ new_opps' = <<>>
    /\ UNCHANGED <<fetch, running, now, flagged, scan, seen, handed, stats>>

\* _monitor_loop lines 100-103: a stage raised; a scan that raises leaves the
\* flagged-markets map as far as the Probability-Sum rule got
Raised ==
    /\ pc \in {"fetching", "detecting", "notifying"}
    /\ \E k \in 0..Len(markets) :
         flagged' = IF pc = "detecting" THEN ProbSumFlags(flagged, Take(markets, k))
                    ELSE flagged
    /\ stats' = [stats EXCEPT !.errors = @ + 1]
    /\ markets' = <<>>
    /\ calls' = 0
    /\ handed' = handed \cup HandedOf(new_opps)
    /\ new_opps' = <<>>
    /\ pc' = "backoff"
    /\ UNCHANGED <<fetch, running, now, scan, seen>>

\* faulty variant, for comparison: the flagged-markets map is emptied between cycles
WakeClears ==
    /\ pc \in {"sleeping", "backoff"}
    /\ pc' = "loop"
    /\ scan' = NoScan
    /\ flagged' = <<>>
    /\ UNCHANGED <<fetch, running, now, markets, calls, seen, new_opps, handed, stats>>

\* _monitor_loop lines 96 and 103: asyncio.sleep returns; the locals of the
\* finished cycle are gone
Wake ==
    /\ pc \in {"sleeping", "backoff"}
    /\ pc' = "loop"
    /\ scan' = NoScan
    /\ UNCHANGED <<fetch, running, now, markets, calls, flagged, seen, new_opps, handed, stats>>

\* faulty variant, for comparison: the signal handler sends the coroutine back to the loop head
StopReenters ==
    /\ pc \notin {"idle", "stopped"}
    /\ running
    /\ running' = FALSE
    /\ pc' = "loop"
    /\ UNCHANGED <<fetch, now, markets, calls, flagged, scan, seen, new_opps, handed, stats>>

\* ArbitrageMonitor.stop, run by the signal handler
Stop ==
    /\ pc \notin {"idle", "stopped"}
    /\ running
    /\ running' = FALSE
    /\ UNCHANGED <<fetch, pc, now, markets, calls, flagged, scan, seen, new_opps, handed, stats>>

Next ==
    \/ Start
    \/ LoopHead
    \/ Fetch
    \/ Detect
    \/ Filter
    \/ Notified
    \/ Raised
    \/ Wake
    \/ Stop

Spec == Init /\ [][Next]_vars

ScanNext ==
    \/ ScanDetect
    \/ Rescan

ScanSpec == ScanInit /\ [][ScanNext]_vars

\* scan_all_markets is called with some config.MAX_MARKETS
FetchInit ==
    /\ pc = "fetching"
    /\ markets = <<>>
    /\ \E mx \in MaxMarketsChoices :
         fetch = [NoFetch EXCEPT !.step = "paging", !.max = mx]
    /\ InitState

\* faulty variant, for comparison: the loop goes on whatever it has collected
MorePagesNoCap(batch, all, max) == batch # <<>> /\ Len(batch) >= BatchSize

\* lines 195, 199-200 and 210-211: the loop asks for another page
MorePages(batch, all, max) ==
    /\ batch # <<>>
    /\ Len(batch) >= BatchSize
    /\ Len(all) < max

\* get_markets line 67: the request for the page at the offset is made and the
\* await of session.get ends, with an answer or with a failure
Answer ==
    /\ pc = "fetching"
    /\ fetch.step = "paging"
    /\ \E resp \in Responses(fetch.offset) :
         fetch' = [fetch EXCEPT !.step = "answered",
                                !.requests = @ + 1,
                                !.resp = resp]
    /\ UNCHANGED <<pc, running, now, markets, calls, flagged, scan, seen, new_opps,
                   handed, stats>>

\* get_markets lines 68-90 and scan_all_markets lines 195-217: the answer is
\* parsed and filtered and the pass of the while loop runs on, to the next
\* request or, when the loop ends, to the return
ScanPage ==
    /\ pc = "fetching"
    /\ fetch.step = "answered"
    /\ LET batch == get_markets(fetch.resp)
           all   == fetch.markets \o batch
           more  == MorePages(batch, all, fetch.max)
       IN  fetch' = [step     |-> IF more THEN "paging" ELSE "done",
                     max      |-> fetch.max,
                     offset   |-> IF batch # <<>> THEN fetch.offset + BatchSize
                                  ELSE fetch.offset,
                     requests |-> fetch.requests,
                     resp     |-> fetch.resp,
                     markets  |-> all,
                     cache    |-> IF more THEN <<>> ELSE SortAndCap(all, fetch.max)]
    /\ UNCHANGED <<pc, running, now, markets, calls, flagged, scan, seen, new_opps,
                   handed, stats>>

FetchNext == Answer \/ ScanPage

FetchSpec == FetchInit /\ [][FetchNext]_vars

\* every request ends: the session has a total timeout of REQUEST_TIMEOUT
\* seconds, and get_markets returns [] when it expires
FairFetchSpec == FetchSpec /\ WF_vars(Answer) /\ WF_vars(ScanPage)

\* the steps of the monitor coroutine: every await of the loop returns or raises
Progress ==
    \/ Raised
    \/ LoopHead
    \/ Fetch
    \/ Filter
    \/ Notified
    \/ Wake
    \/ Detect

\* the event loop keeps running the monitor coroutine
FairSpec == Spec /\ WF_vars(Progress)

\* ===================================================================== claims
\* a step of the novelty filter (main.py lines 120-130)
FilterStep == pc = "filtering" /\ pc' \in {"notifying", "sleeping"}

IdNotSeen(o) == o.id \notin seen

\* C1: in every scan cycle the opportunities handed to the sink are exactly the
\* aggregated opportunities whose id was not in the seen-set when detection
\* finished, the seen-set grows by exactly those ids, and no step removes an id
\* from the seen-set.
C1_NoveltyFilter ==
    [][/\ seen \subseteq seen'
       /\ FilterStep =>
            /\ new_opps' = SelectSeq(scan.result, IdNotSeen)
            /\ seen' = seen \cup {scan.result[i].id :
                                    i \in {j \in 1..Len(scan.result) : IdNotSeen(scan.result[j])}}
            /\ (new_opps' # <<>>) <=> (pc' = "notifying")
       /\ ~FilterStep => (new_opps' = new_opps \/ new_opps' = <<>>) /\ seen' = seen]_vars

\* a cycle after the first hands some of its opportunities on and drops others
C1_Witness ==
    /\ pc = "notifying"
    /\ handed # {}
    /\ new_opps # <<>>
    /\ Len(new_opps) < Len(scan.result)

\* C2: no opportunity id is handed to the sink more than once, neither in two
\* cycles nor twice inside one cycle.
C2_AtMostOnce ==
    pc = "notifying" =>
        /\ \A i, j \in 1..Len(new_opps) : i # j => new_opps[i].id # new_opps[j].id
        /\ \A i \in 1..Len(new_opps) : new_opps[i].id \notin {h.id : h \in handed}

\* C3: an opportunity whose id is in the seen-set is not handed on again; an
\* opportunity that was handed on in an earlier second and is found again by a
\* cycle running in a later second than every earlier delivery has an id that
\* is not in the seen-set and is handed on again.
C3_RefireAcrossBuckets ==
    [][FilterStep =>
         \A i \in 1..Len(scan.result) :
            LET o == scan.result[i]
            IN  /\ o.id \in seen => \A k \in 1..Len(new_opps') : new_opps'[k].id # o.id
                /\ (/\ \E h \in handed : h.key = DedupKey(o) /\ h.at < o.detected_at
                    /\ \A h \in handed : h.at < o.detected_at)
                   => /\ o.id \notin seen
                      /\ \E k \in 1..Len(new_opps') : new_opps'[k] = o]_vars

\* the sink is called with an opportunity on markets it was already called
\* with in an earlier second
C3_Witness ==
    /\ pc = "notifying"
    /\ \E i \in 1..Len(new_opps) :
         \E h \in handed : h.key = DedupKey(new_opps[i]) /\ h.at < new_opps[i].detected_at

\* ------------------------------------------------- claims about the rules
\* full_scan has returned
Scanned == pc = "filtering"

\* a step that runs full_scan
DetectStep == pc = "detecting" /\ pc' = "filtering"

\* the claim's trigger: at least 2 outcomes and |prob_sum - 1| above the threshold
Triggers(m) ==
    /\ Len(m.outcomes) >= 2
    /\ \/ prob_sum(m) > One + PROB_SUM_THRESHOLD
       \/ prob_sum(m) < One - PROB_SUM_THRESHOLD

\* C4: the Probability-Sum rule emits exactly one ProbSum opportunity for each
\* market of the list with at least 2 outcomes and a deviation strictly above
\* the threshold, in list order, and nothing for any other market.
C4_ProbSumEmission ==
    Scanned =>
        LET fired == SelectSeq(markets, Triggers)
        IN  /\ Len(scan.prob) = Len(fired)
            /\ \A i \in 1..Len(scan.prob) :
                 /\ scan.prob[i].type = "prob_sum"
                 /\ scan.prob[i].markets = <<fired[i]>>

\* a list with a market that triggers and a market whose deviation equals the threshold
C4_Witness ==
    /\ Scanned
    /\ Len(scan.prob) = 1
    /\ \E i, j \in 1..Len(markets) :
         /\ Triggers(markets[i])
         /\ Len(markets[j].outcomes) >= 2
         /\ Abs(prob_sum(markets[j]) - One) = PROB_SUM_THRESHOLD

\* C5: a ProbSum opportunity has profit_estimate (prob_sum - 1)/prob_sum when
\* prob_sum > 1 and 1 - prob_sum when prob_sum < 1; prob_sum 1.10 gives 0.0909
\* (to four places) and prob_sum 0.90 gives 0.10.
C5_ProbSumProfit ==
    Scanned =>
        \A i \in 1..Len(scan.prob) :
            LET s == prob_sum(scan.prob[i].markets[1])
                p == scan.prob[i].profit_estimate
            IN  /\ p.den > 0
                /\ s > One => p.num * s = (s - One) * p.den
                /\ s < One => p.num * One = (One - s) * p.den
                /\ s = 110 => (p.num * 10000) \div p.den = 909
                /\ s = 90 => (p.num * 10000) \div p.den = 1000

\* one scan emits for a market with prob_sum 1.10 and for one with prob_sum 0.90
C5_Witness ==
    /\ Scanned
    /\ \E i, j \in 1..Len(scan.prob) :
         /\ prob_sum(scan.prob[i].markets[1]) = 110
         /\ prob_sum(scan.prob[j].markets[1]) = 90

\* the last row of the list with market id i that triggers
LastTriggering(i) ==
    markets[CHOOSE k \in 1..Len(markets) :
              /\ markets[k].id = i
              /\ Triggers(markets[k])
              /\ \A l \in (k + 1)..Len(markets) : ~(markets[l].id = i /\ Triggers(markets[l]))]

\* C6: after the rule ran, every market that triggered is in the flagged map
\* under its market id with the snapshot of this scan (the last triggering row
\* of that id), an entry the scan did not write is as it was, no id is there
\* twice, and running the scan again on the same list leaves the map unchanged.
C6_Flagging ==
    [][DetectStep =>
         /\ \A i \in 1..Len(markets) :
              Triggers(markets[i]) =>
                 \E k \in 1..Len(flagged') :
                    /\ flagged'[k].id = markets[i].id
                    /\ flagged'[k] = LastTriggering(markets[i].id)
         /\ \A k \in 1..Len(flagged') :
              \/ \E i \in 1..Len(markets) :
                    Triggers(markets[i]) /\ markets[i].id = flagged'[k].id
              \/ k <= Len(flagged) /\ flagged'[k] = flagged[k]
         /\ \A k, l \in 1..Len(flagged') : k # l => flagged'[k].id # flagged'[l].id
         /\ calls >= 1 => flagged' = flagged]_vars

\* the scan ran twice on a list holding a market that triggers and one that does not
C6_Witness ==
    /\ Scanned
    /\ calls = 2
    /\ flagged # <<>>
    /\ \E i \in 1..Len(markets) : ~Triggers(markets[i])
    /\ \A k \in 1..Len(flagged) : Triggers(flagged[k])

\* C7: the Cross-Market rule never emits an opportunity whose two markets have
\* the same condition_id.
C7_NoSameCondition ==
    Scanned =>
        \A k \in 1..Len(scan.cross) :
            scan.cross[k].markets[1].condition_id # scan.cross[k].markets[2].condition_id

\* the yes and no prices the claims speak of, and their best_profit
YesOf(m) == PriceOf(m, "yes")

NoOf(m) == PriceOf(m, "no")

ClaimProfit(combo) == IF combo < One THEN One - combo ELSE 0

ClaimBest(a, b) ==
    LET pa == ClaimProfit(YesOf(a) + NoOf(b))
        pb == ClaimProfit(NoOf(a) + YesOf(b))
    IN  IF pa >= pb THEN pa ELSE pb

ExactlyYesNo(m) == OutcomeNames(m) = {"yes", "no"}

SameGroup(a, b) == HasKey(a) /\ HasKey(b) /\ GroupKey(a) = GroupKey(b)

\* two rows of one contract with different market ids that would be an
\* arbitrage if they were different contracts: nothing is emitted
C7_Witness ==
    /\ Scanned
    /\ scan.cross = <<>>
    /\ \E i, j \in 1..Len(markets) :
         /\ i < j
         /\ markets[i].id # markets[j].id
         /\ markets[i].condition_id = markets[j].condition_id
         /\ SameGroup(markets[i], markets[j])
         /\ CoreEvent(markets[i].question) = CoreEvent(markets[j].question)
         /\ ExactlyYesNo(markets[i]) /\ ExactlyYesNo(markets[j])
         /\ ClaimBest(markets[i], markets[j]) > SPREAD_THRESHOLD

\* C8: the Cross-Market rule never emits an opportunity in which a market has
\* an outcome-name set other than exactly {yes, no}.
C8_OnlyBinary ==
    Scanned =>
        \A k \in 1..Len(scan.cross) :
            \A i \in 1..Len(scan.cross[k].markets) : ExactlyYesNo(scan.cross[k].markets[i])

\* the pairs of list positions i < j holding the markets a and b
PairCount(a, b) ==
    Cardinality({ij \in (1..Len(markets)) \X (1..Len(markets)) :
                    ij[1] < ij[2] /\ markets[ij[1]] = a /\ markets[ij[2]] = b})

\* the CrossMarket opportunities emitted for the markets a and b
CrossCount(a, b) ==
    Cardinality({k \in 1..Len(scan.cross) : scan.cross[k].markets = <<a, b>>})

\* C9 as stated: every pair of the same similarity group with different
\* condition_ids and both binary yes/no yields exactly one CrossMarket
\* opportunity iff best_profit > SPREAD_THRESHOLD, with that profit_estimate.
C9_CrossEmission_AsStated ==
    Scanned =>
        \A a, b \in Range(markets) :
            (/\ SameGroup(a, b)
             /\ a.condition_id # b.condition_id
             /\ ExactlyYesNo(a) /\ ExactlyYesNo(b))
            => /\ CrossCount(a, b) =
                    IF ClaimBest(a, b) > SPREAD_THRESHOLD THEN PairCount(a, b) ELSE 0
               /\ \A k \in 1..Len(scan.cross) :
                    scan.cross[k].markets = <<a, b>> =>
                       scan.cross[k].profit_estimate = [num |-> ClaimBest(a, b), den |-> One]

\* C9 amended: the pair must also have the same core event (the lowercase
\* question up to its first time qualifier); a pair of one group whose core
\* events differ yields nothing.
C9_CrossEmission ==
    Scanned =>
        /\ \A a, b \in Range(markets) :
             (/\ SameGroup(a, b)
              /\ a.condition_id # b.condition_id
              /\ ExactlyYesNo(a) /\ ExactlyYesNo(b))
             => /\ CrossCount(a, b) =
                     IF /\ CoreEvent(a.question) = CoreEvent(b.question)
                        /\ ClaimBest(a, b) > SPREAD_THRESHOLD
                     THEN PairCount(a, b) ELSE 0
                /\ \A k \in 1..Len(scan.cross) :
                     scan.cross[k].markets = <<a, b>> =>
                        scan.cross[k].profit_estimate = [num |-> ClaimBest(a, b), den |-> One]
        /\ \A k \in 1..Len(scan.cross) :
             /\ scan.cross[k].type = "cross_market"
             /\ PairCount(scan.cross[k].markets[1], scan.cross[k].markets[2]) > 0
             /\ SameGroup(scan.cross[k].markets[1], scan.cross[k].markets[2])

\* one pair of binary markets on one core event is emitted with its best_profit
C9_Witness ==
    /\ Scanned
    /\ Len(scan.cross) = 1
    /\ \E a, b \in Range(markets) :
         /\ SameGroup(a, b)
         /\ CoreEvent(a.question) = CoreEvent(b.question)
         /\ a.condition_id # b.condition_id
         /\ ExactlyYesNo(a) /\ ExactlyYesNo(b)
         /\ ClaimBest(a, b) > SPREAD_THRESHOLD
         /\ scan.cross[1].markets = <<a, b>>
         /\ scan.cross[1].profit_estimate.num = ClaimBest(a, b)

FlaggedIds == {flagged[k].id : k \in 1..Len(flagged)}

\* C10: token-id lookups are issued only for flagged markets, every Spread
\* opportunity references a market of the flagged-markets map, and with an
\* empty map the rule emits nothing and makes no lookup.
C10_SpreadOnlyFlagged ==
    Scanned =>
        /\ scan.lookups \subseteq FlaggedIds
        /\ \A k \in 1..Len(scan.spread) :
             /\ Len(scan.spread[k].markets) = 1
             /\ scan.spread[k].markets[1] \in Range(flagged)
        /\ flagged = <<>> =>
             /\ scan.spread = <<>>
             /\ scan.lookups = {}
             /\ scan.spread_req = <<>>

\* a scan of a list with a market that is not flagged emits a Spread
\* opportunity for a flagged one
C10_Witness ==
    /\ Scanned
    /\ scan.spread # <<>>
    /\ \E i \in 1..Len(markets) : markets[i].id \notin FlaggedIds

\* the tokens the lookup named for a checked market
TokensOfChecked(m) ==
    IF m.id \in DOMAIN scan.token_map THEN scan.token_map[m.id] ELSE <<>>

\* the Spread opportunities emitted for a token
SpreadsFor(tok) == {k \in 1..Len(scan.spread) : scan.spread[k].details.token_id = tok}

\* C11: for every token of every flagged market whose spread exceeds
\* SPREAD_THRESHOLD the Spread rule emits exactly one Spread opportunity, with
\* that spread as profit_estimate, however many tokens the flagged markets have.
C11_SpreadCoverage ==
    (Scanned /\ scan.world.spr # "fail") =>
        \A i \in 1..Len(scan.checked) :
            \A j \in 1..Len(TokensOfChecked(scan.checked[i])) :
                LET tok    == TokensOfChecked(scan.checked[i])[j]
                    spread == SpreadWorld[scan.world.spr][tok]
                IN  spread > SPREAD_THRESHOLD =>
                       /\ Cardinality(SpreadsFor(tok)) = 1
                       /\ \A k \in SpreadsFor(tok) :
                            scan.spread[k].profit_estimate = [num |-> spread, den |-> One]

\* the token-id lookup of a checked market fails or names no token
LookupFailed(m) == m.id \in scan.world.down \/ TokenWorld[m.id] = <<>>

NotSpread(o) == o.type # "spread"

\* the key of the aggregator: type and sorted market ids
ClaimKey(o) == <<o.type, Sorted([i \in 1..Len(o.markets) |-> o.markets[i].id])>>

\* the opportunities of a sequence whose key does not occur before them
FirstOfEachKey(all) ==
    LET First(i) == \A j \in 1..(i - 1) : ClaimKey(all[j]) # ClaimKey(all[i])
        keep     == SelectSeq([i \in 1..Len(all) |-> i], First)
    IN  [k \in 1..Len(keep) |-> all[keep[k]]]

\* C12: a scan whose lookups fail still returns: a flagged market whose token-id lookup fails or
\* names nothing, or whose spreads cannot be fetched, gets no Spread
\* opportunity; a Spread opportunity whose midpoint cannot be fetched has
\* mid_price 0.5; the ProbSum and CrossMarket opportunities of the scan are
\* returned whatever the lookups did.
C12_LookupFailuresSkip ==
    Scanned =>
        /\ \A i \in 1..Len(scan.checked) :
             (LookupFailed(scan.checked[i]) \/ scan.world.spr = "fail") =>
                 \A k \in 1..Len(scan.spread) : scan.spread[k].markets # <<scan.checked[i]>>
        /\ \A k \in 1..Len(scan.spread) :
             scan.spread[k].details.mid_price =
                 IF scan.world.mid_ok THEN MidWorld[scan.spread[k].details.token_id]
                 ELSE DefaultMid
        /\ SelectSeq(scan.result, NotSpread) = FirstOfEachKey(scan.prob \o scan.cross)

\* the lookup of one flagged market failed, another flagged market got a Spread
\* opportunity at the default midpoint, and the ProbSum opportunities came back
C12_Witness ==
    /\ Scanned
    /\ \E i \in 1..Len(scan.checked) : scan.checked[i].id \in scan.world.down
    /\ ~scan.world.mid_ok
    /\ \E k \in 1..Len(scan.spread) :
         /\ scan.spread[k].details.mid_price = DefaultMid
         /\ MidWorld[scan.spread[k].details.token_id] # DefaultMid
    /\ \E k \in 1..Len(scan.result) : scan.result[k].type = "prob_sum"

\* C13: the result of full_scan is the ProbSum, CrossMarket and Spread outputs
\* in that order without every opportunity whose key (type, sorted market ids)
\* occurred earlier: the survivors keep their order, the first of each key is
\* kept, no two share a key.
C13_Aggregator ==
    Scanned =>
        /\ scan.result = FirstOfEachKey(scan.prob \o scan.cross \o scan.spread)
        /\ \A i, j \in 1..Len(scan.result) :
              i # j => ClaimKey(scan.result[i]) # ClaimKey(scan.result[j])

\* all three rules emitted and the aggregator dropped a later duplicate
C13_Witness ==
    /\ Scanned
    /\ scan.prob # <<>>
    /\ scan.cross # <<>>
    /\ scan.spread # <<>>
    /\ Len(scan.result) < Len(scan.prob) + Len(scan.cross) + Len(scan.spread)

\* C14: full_scan run again on the same list, in the same second and with the
\* same external answers, returns what the run before returned, rule by rule.
C14_Idempotent ==
    [][(DetectStep /\ scan'.repeat) =>
          /\ scan'.result = scan.result
          /\ scan'.prob = scan.prob
          /\ scan'.cross = scan.cross
          /\ scan'.spread = scan.spread]_vars

\* the second run repeated the first, which had flagged markets, and the
\* result holds a Spread opportunity
C14_Witness ==
    /\ Scanned
    /\ calls = 2
    /\ scan.repeat
    /\ flagged # <<>>
    /\ \E k \in 1..Len(scan.result) : scan.result[k].type = "spread"

\* the market ids of an opportunity
IdsOf(o) == {o.markets[i].id : i \in 1..Len(o.markets)}

\* C15: within one scan, two opportunities produced by the rules have the same
\* id if and only if they have the same type and the same set of market ids.
C15_IdFunction ==
    Scanned =>
        LET all == scan.prob \o scan.cross \o scan.spread
        IN  \A i, j \in 1..Len(all) :
               (all[i].id = all[j].id) <=>
                   (all[i].type = all[j].type /\ IdsOf(all[i]) = IdsOf(all[j]))

\* ------------------------------------------------ claims about the controller
Stages == {"fetching", "detecting", "notifying"}

\* C16: a stage that raises is caught: the error counter grows by exactly one
\* and only then, the loop goes to the back-off and from there to the loop
\* head, the loop ends only when stop was requested, and while it was not a
\* further cycle is started.
C16_SurvivesBadCycle ==
    /\ [][(pc' = "backoff" /\ pc # "backoff") =>
             (pc \in Stages /\ stats'.errors = stats.errors + 1)]_vars
    /\ [][stats'.errors # stats.errors => (pc' = "backoff" /\ pc # "backoff")]_vars
    /\ [][pc = "backoff" => pc' \in {"backoff", "loop"}]_vars
    /\ [][(pc' = "stopped" /\ pc # "stopped") => ~running]_vars
    /\ (pc = "backoff" /\ running /\ stats.scans < MaxScans) ~> (pc = "fetching" \/ ~running)

\* a cycle is started after a cycle that raised, stop not requested
C16_Witness ==
    /\ pc = "fetching"
    /\ running
    /\ stats.errors >= 1

\* C17: a cycle whose fetch stage yields no markets counts as an error and is
\* followed by the back-off, with the seen-set and the flagged map unchanged.
C17_EmptyFetchIsFailure ==
    [][(pc = "fetching" /\ pc' \notin {"fetching", "detecting"}) =>
          /\ stats'.errors = stats.errors + 1
          /\ pc' = "backoff"
          /\ seen' = seen
          /\ flagged' = flagged]_vars

\* C18: after stop() no new cycle is started, stop() itself leaves the running
\* stage alone, the loop ends only at its head, and it does end.
C18_GracefulStop ==
    /\ [][(~running /\ pc # "fetching") => pc' # "fetching"]_vars
    /\ [][(~running /\ pc # "idle") => ~running']_vars
    /\ [][(running /\ ~running') =>
             /\ pc' = pc
             /\ <<markets, calls, flagged, scan, seen, new_opps, handed, stats>>' =
                <<markets, calls, flagged, scan, seen, new_opps, handed, stats>>]_vars
    /\ [][(pc' = "stopped" /\ pc # "stopped") => pc = "loop"]_vars
    /\ (pc # "idle" /\ ~running) ~> (pc = "stopped")

\* the loop has ended after a cycle that handed opportunities to the sink
C18_Witness ==
    /\ pc = "stopped"
    /\ ~running
    /\ stats.scans >= 1
    /\ handed # {}

\* C19: stop() called during the sleep or the back-off ends that phase at once.
C19_StopEndsSleep ==
    [][(pc \in {"sleeping", "backoff"} /\ running /\ ~running') =>
          pc' \notin {"sleeping", "backoff"}]_vars

\* the moves of the monitor coroutine from one position to the next
Allowed ==
    {<<"idle", "loop">>, <<"loop", "fetching">>, <<"loop", "stopped">>,
     <<"fetching", "detecting">>, <<"fetching", "sleeping">>, <<"fetching", "backoff">>,
     <<"detecting", "filtering">>, <<"detecting", "backoff">>,
     <<"filtering", "notifying">>, <<"filtering", "sleeping">>,
     <<"notifying", "sleeping">>, <<"notifying", "backoff">>,
     <<"sleeping", "loop">>, <<"backoff", "loop">>}

\* C20: the stages of a cycle run in the order fetch, detect, notify; a fetch
\* begins only at the loop head, which is reached only after the sleep or the
\* back-off of the cycle before, with nothing of that cycle left; the signal
\* handler moves nothing.
C20_NoOverlap ==
    /\ [][pc' # pc => <<pc, pc'>> \in Allowed]_vars
    /\ [][(running /\ ~running') => pc' = pc]_vars
    /\ [][stats'.scans # stats.scans =>
             (pc = "loop" /\ pc' = "fetching" /\ stats'.scans = stats.scans + 1)]_vars
    /\ [](pc \in {"loop", "fetching"} => (markets = <<>> /\ new_opps = <<>> /\ calls = 0))

\* a second cycle is detecting after the first one notified and the signal
\* handler ran
C20_Witness ==
    /\ pc = "detecting"
    /\ stats.scans = 2
    /\ ~running
    /\ handed # {}

\* --------------------------------------------------------- the fetch, C21..C23
\* scan_all_markets has returned
Fetched == fetch.step = "done"

\* C21: scan_all_markets returns at most MAX_MARKETS of the markets it fetched,
\* as many as the cap allows, in non-increasing order of volume, and no market
\* that the truncation dropped has a strictly higher volume than one it kept.
C21_FetchCap ==
    Fetched =>
        LET c   == fetch.cache
            all == fetch.markets
        IN  /\ Len(c) <= fetch.max
            /\ Len(c) = IF Len(all) < fetch.max THEN Len(all) ELSE fetch.max
            /\ Range(c) \subseteq Range(all)
            /\ \A i \in 1..Len(c) - 1 : c[i].volume >= c[i + 1].volume
            /\ \A j \in 1..Len(all) :
                 all[j] \notin Range(c) =>
                     \A i \in 1..Len(c) : all[j].volume <= c[i].volume

\* more markets were fetched than the cap, and the ones returned are not the
\* first ones in the order of the fetch
C21_Witness ==
    /\ Fetched
    /\ Len(fetch.markets) > fetch.max
    /\ fetch.cache # Take(fetch.markets, fetch.max)

\* C22 as stated: every outcome of a market the fetch returns has a price within
\* [0, 1]. from_api_response stores float() of the raw price as it is.
C22_PriceRange ==
    \A i \in 1..Len(fetch.markets) :
        \A j \in 1..Len(fetch.markets[i].outcomes) :
            /\ fetch.markets[i].outcomes[j].price >= 0
            /\ fetch.markets[i].outcomes[j].price <= One

\* the records of the last page that parse and pass the filter of get_markets
Parseable(resp) ==
    {d \in Range(resp.data) : ~ParseRaises(d) /\ ActiveWithVolume(from_api_response(d))}

\* C23 as stated: the markets of an answered page that parse are returned by the
\* fetch, whatever the other records of that page are.
C23_PageSurvives ==
    (fetch.resp.ok /\ fetch.step # "answered") =>
        \A d \in Parseable(fetch.resp) : from_api_response(d) \in Range(fetch.markets)

\* ---------------------------------------------------- the flagged map, C24
\* the ids of the flagged-markets map after the step
FlaggedIdsAfter == {flagged'[k].id : k \in 1..Len(flagged')}

Emitted == scan.prob \o scan.cross \o scan.spread

\* C25: every opportunity a rule emits, and so every one full_scan returns, has
\* a profit estimate that is not negative (a fraction with numerator >= 0 and
\* denominator > 0), outcome prices being in [0,1] and spreads not negative.
C25_ProfitNonNegative ==
    Scanned =>
        \A o \in Range(Emitted) \cup Range(scan.result) :
            /\ o.profit_estimate.num >= 0
            /\ o.profit_estimate.den > 0

\* all three rules emitted, the Probability-Sum rule for a market priced below 1
C25_Witness ==
    /\ Scanned
    /\ \E k \in 1..Len(scan.prob) : prob_sum(scan.prob[k].markets[1]) < One
    /\ scan.cross # <<>>
    /\ scan.spread # <<>>

\* OpportunityType without LIQUIDITY_ARB
TypesInUse == {"prob_sum", "cross_market", "spread"}

\* C26: every opportunity full_scan returns is of type ProbSum, CrossMarket or
\* Spread; a ProbSum or Spread opportunity carries one market, a CrossMarket
\* opportunity two markets with different condition_ids.
C26_Shape ==
    Scanned =>
        \A o \in Range(scan.result) :
            /\ o.type \in TypesInUse
            /\ o.type \in {"prob_sum", "spread"} => Len(o.markets) = 1
            /\ o.type = "cross_market" =>
                 /\ Len(o.markets) = 2
                 /\ o.markets[1].condition_id # o.markets[2].condition_id

\* the result of one scan holds an opportunity of each of the three types
C26_Witness ==
    /\ Scanned
    /\ \A ty \in TypesInUse : \E k \in 1..Len(scan.result) : scan.result[k].type = ty

\* C27 as stated: a Cross-Market opportunity whose two combinations cost the
\* same records the leg Yes on m1 / No on m2 with cost combo_a; otherwise it
\* records the leg with the strictly larger profit; cost + profit = payout = 1.
C27_TieBreak ==
    Scanned =>
        \A k \in 1..Len(scan.cross) :
            LET o  == scan.cross[k]
                ca == YesOf(o.markets[1]) + NoOf(o.markets[2])
                cb == NoOf(o.markets[1]) + YesOf(o.markets[2])
            IN  /\ ca = cb =>
                     (o.details.leg = "yes_m1_no_m2" /\ o.details.cost = ca)
                /\ ca # cb =>
                     IF ClaimProfit(ca) > ClaimProfit(cb)
                     THEN o.details.leg = "yes_m1_no_m2" /\ o.details.cost = ca
                     ELSE o.details.leg = "no_m1_yes_m2" /\ o.details.cost = cb
                /\ o.details.payout = One
                /\ o.details.cost + o.profit_estimate.num = o.details.payout

\* ------------------------------------------------- failed deliveries, C28
\* the ids of the opportunities the sink is being called with
IdsAtSink == Range(OppIds(new_opps))

\* the sink call of the cycle ends: it reports a count or raises
SinkStep == pc = "notifying" /\ pc' # "notifying"

\* C28: the ids of the opportunities handed to the sink are in the seen-set
\* before the sink is called and none of them was handed to it in an earlier
\* cycle; they stay in the seen-set whatever the sink reports or raises, and
\* the filter lets through only ids that are not in the seen-set, so none of
\* them is handed on again; notifications never exceeds opportunities.
C28_NoRetry ==
    /\ [](pc = "notifying" =>
            /\ IdsAtSink \subseteq seen
            /\ IdsAtSink \cap {h.id : h \in handed} = {})
    /\ []({h.id : h \in handed} \subseteq seen)
    /\ [][seen \subseteq seen']_vars
    /\ [][SinkStep => (seen' = seen /\ IdsAtSink \subseteq seen')]_vars
    /\ [][FilterStep => Range(OppIds(new_opps')) \cap seen = {}]_vars
    /\ [](stats.notifications <= stats.opportunities)

\* the sink sent nothing of what the first cycle handed to it, and the second
\* cycle found an opportunity under an id of the seen-set
C28_Witness ==
    /\ pc = "filtering"
    /\ stats.scans = 2
    /\ stats.opportunities > 0
    /\ stats.notifications = 0
    /\ \E k \in 1..Len(scan.result) : scan.result[k].id \in seen

\* ------------------------------------- one Spread opportunity per market, C29
\* the entries of the spread answer above the threshold
WideEntries == {j \in 1..Len(scan.spreads) : scan.spreads[j].spread > SPREAD_THRESHOLD}

\* those of them whose token the k-th checked market lists
WideOf(k) ==
    {j \in WideEntries :
        scan.spreads[j].token_id \in Range(TokensOfChecked(scan.checked[k]))}

\* those of them whose token no later checked market lists: market_token_map
\* keeps, for a token several flagged markets list, the last of these markets
AttributedTo(k) ==
    {j \in WideOf(k) :
        \A l \in (k + 1)..Len(scan.checked) :
            scan.spreads[j].token_id \notin Range(TokensOfChecked(scan.checked[l]))}

\* the Spread opportunities of the result for market id i
SpreadResultsOf(i) ==
    {r \in 1..Len(scan.result) :
        scan.result[r].type = "spread" /\ scan.result[r].markets[1].id = i}

\* C29 as stated: for a flagged market with several tokens above the threshold
\* the result holds exactly one Spread opportunity, the one for the first of
\* these tokens in the order of the spread answer.
C29_OnePerMarket_AsStated ==
    Scanned =>
        \A k \in 1..Len(scan.checked) :
            Cardinality(WideOf(k)) >= 2 =>
                /\ Cardinality(SpreadResultsOf(scan.checked[k].id)) = 1
                /\ \A r \in SpreadResultsOf(scan.checked[k].id) :
                     scan.result[r].details.token_id =
                         scan.spreads[MinOfSet(WideOf(k))].token_id

\* C29 amended: the tokens that count for a market are those the rule
\* attributes to it, a token listed by several flagged markets counting only
\* for the last of them in the order of the flagged map. For a market with at
\* least one such token above the threshold the result holds exactly one Spread
\* opportunity, for the first of them in the order of the spread answer; for a
\* market with none it holds no Spread opportunity.
C29_OnePerMarket ==
    Scanned =>
        \A k \in 1..Len(scan.checked) :
            /\ AttributedTo(k) # {} =>
                 /\ Cardinality(SpreadResultsOf(scan.checked[k].id)) = 1
                 /\ \A r \in SpreadResultsOf(scan.checked[k].id) :
                      scan.result[r].details.token_id =
                          scan.spreads[MinOfSet(AttributedTo(k))].token_id
            /\ AttributedTo(k) = {} => SpreadResultsOf(scan.checked[k].id) = {}

\* two tokens of one flagged market were above the threshold and the aggregator
\* dropped the opportunity of the second
C29_Witness ==
    /\ Scanned
    /\ \E k \in 1..Len(scan.checked) :
         /\ Cardinality(AttributedTo(k)) >= 2
         /\ Cardinality({j \in 1..Len(scan.spread) :
                           scan.spread[j].markets[1].id = scan.checked[k].id}) >= 2
         /\ Cardinality(SpreadResultsOf(scan.checked[k].id)) = 1

\* --------------------------------------------------- same-scan escalation, C30
\* C30: every market of the list that triggers the Probability-Sum rule is, in
\* that same scan, among the markets the Spread rule examines, with the
\* snapshot the Probability-Sum rule flagged, and its token ids are looked up.
C30_SameScanEscalation ==
    Scanned =>
        \A j \in 1..Len(markets) :
            Triggers(markets[j]) =>
                /\ markets[j].id \in scan.lookups
                /\ LastTriggering(markets[j].id) \in Range(scan.checked)

\* the first scan of a detector, its flagged map empty before, emitted a Spread
\* opportunity for a market that triggered in this scan
C30_Witness ==
    /\ Scanned
    /\ calls = 1
    /\ \E k \in 1..Len(scan.spread), j \in 1..Len(markets) :
         /\ Triggers(markets[j])
         /\ scan.spread[k].markets[1] = markets[j]

\* ------------------------------------------------------- pagination, C31
\* ceil(max / 100)
PagesFor(max) == (max + BatchSize - 1) \div BatchSize

\* the markets the last request added
Added == Len(fetch'.markets) - Len(fetch.markets)

\* C31: scan_all_markets finishes; the request after k requests asks for offset
\* 100 * k; the loop ends with the first request that adds nothing, adds fewer
\* than 100 markets or brings the collected markets to MAX_MARKETS, and with no
\* other; it makes at most ceil(MAX_MARKETS / 100) requests.
C31_PaginationTerminates ==
    /\ <>Fetched
    /\ [](fetch.step = "paging" => fetch.offset = BatchSize * fetch.requests)
    /\ [](fetch.requests <= PagesFor(fetch.max))
    /\ [][fetch'.requests # fetch.requests =>
            /\ fetch.step = "paging"
            /\ fetch'.requests = fetch.requests + 1
            /\ fetch'.step = "answered"]_vars
    /\ [][(fetch.step = "answered" /\ fetch' # fetch) =>
            /\ fetch'.step \in {"paging", "done"}
            /\ fetch'.step = "done" <=>
                 (Added = 0 \/ Added < BatchSize \/ Len(fetch'.markets) >= fetch.max)]_vars

\* the source served full pages and the fetch ended at the cap, after more than
\* one request, the last one its ceil(MAX_MARKETS / 100)-th
C31_Witness ==
    /\ Fetched
    /\ fetch.requests > 1
    /\ fetch.requests = PagesFor(fetch.max)
    /\ Len(fetch.markets) >= fetch.max
    /\ Len(fetch.resp.data) = BatchSize

====
